---- MODULE Spec2Model ----
(***************************************************************************)
(* A model of emdata's FFE reader (src/emdata/_feko.py, class FFEReader).  *)
(*                                                                         *)
(* Text is modelled as sequences of one-character strings, so that the     *)
(* regular expressions of the reader are modelled by what they do to the   *)
(* characters.  A Python dict is modelled by a function/record over its    *)
(* keys; an optional key by a sequence of length 0 (absent) or 1.          *)
(* A float is modelled by its decimal value m * 10^e in normal form (m not *)
(* divisible by 10, or m = 0 and e = 0): binary rounding is not modelled,  *)
(* and the literals inf/nan are outside the inputs the model draws.        *)
(***************************************************************************)
EXTENDS Integers, Sequences, FiniteSets, TLC

(***************************************************************************)
(* Characters and the str/re primitives the reader uses                    *)
(***************************************************************************)

\* \s of the re module, restricted to the whitespace a stripped line can hold
Space == {" ", "\t"}

Uppers == <<"A","B","C","D","E","F","G","H","I","J","K","L","M",
            "N","O","P","Q","R","S","T","U","V","W","X","Y","Z">>
Lowers == <<"a","b","c","d","e","f","g","h","i","j","k","l","m",
            "n","o","p","q","r","s","t","u","v","w","x","y","z">>

\* the lower-case form of each upper-case letter
LowerOf ==
  [c \in {Uppers[i] : i \in 1..26} |-> Lowers[CHOOSE i \in 1..26 : Uppers[i] = c]]

\* re.IGNORECASE compares characters by their lower-case form
LowerChar(c) == IF c \in DOMAIN LowerOf THEN LowerOf[c] ELSE c

Lower(s) == [i \in 1..Len(s) |-> LowerChar(s[i])]

\* s with its first n characters removed
Drop(s, n) == SubSeq(s, n + 1, Len(s))

\* the number of leading characters of s that are in cs
RECURSIVE LeadCount(_, _, _)
LeadCount(s, cs, i) ==
  IF i <= Len(s) /\ s[i] \in cs THEN LeadCount(s, cs, i + 1) ELSE i - 1

\* the number of trailing characters of s that are in cs
RECURSIVE TrailCount(_, _, _)
TrailCount(s, cs, i) ==
  IF i >= 1 /\ s[i] \in cs THEN TrailCount(s, cs, i - 1) ELSE Len(s) - i

\* str.lstrip(chars) / str.rstrip(chars), chars given as a set
LStripBy(s, cs) == Drop(s, LeadCount(s, cs, 1))
RStripBy(s, cs) == SubSeq(s, 1, Len(s) - TrailCount(s, cs, Len(s)))

\* line.lstrip().rstrip()
Strip(s) == RStripBy(LStripBy(s, Space), Space)

\* whether sub occurs in s at position i
OccursAt(sub, s, i) ==
  /\ i >= 1
  /\ i + Len(sub) - 1 <= Len(s)
  /\ SubSeq(s, i, i + Len(sub) - 1) = sub

\* the positions of s at which sub occurs
Occurrences(sub, s) == {i \in 1..Len(s) : OccursAt(sub, s, i)}

\* re.match(sub, s, re.IGNORECASE) for a literal sub: a match at the start
MatchI(sub, s) == OccursAt(sub, Lower(s), 1)

\* re.search(sub, s, re.IGNORECASE) for a literal sub: a match anywhere
SearchI(sub, s) == Occurrences(sub, Lower(s)) # {}

\* re.sub(r'[cs]', '', s): every character of the class cs removed
RECURSIVE RemoveAll(_, _)
RemoveAll(s, cs) ==
  IF s = <<>> THEN <<>>
  ELSE IF s[1] \in cs THEN RemoveAll(Tail(s), cs)
       ELSE <<s[1]>> \o RemoveAll(Tail(s), cs)

\* re.split(r'[cs]+', s): the pieces of s between the maximal runs of characters
\* of the class cs; a run at either end leaves an empty piece there
RECURSIVE SplitRuns(_, _, _)
SplitRuns(s, cs, cur) ==
  IF s = <<>> THEN <<cur>>
  ELSE IF s[1] \in cs
       THEN <<cur>> \o SplitRuns(LStripBy(s, cs), cs, <<>>)
       ELSE SplitRuns(Tail(s), cs, Append(cur, s[1]))

Split(s, cs) == SplitRuns(s, cs, <<>>)

(***************************************************************************)
(* float(): the value of a decimal literal, or a failure (ValueError)      *)
(***************************************************************************)

Digits == <<"0","1","2","3","4","5","6","7","8","9">>

\* the value of each digit
ValueOfDigit ==
  [c \in {Digits[i] : i \in 1..10} |-> (CHOOSE i \in 1..10 : Digits[i] = c) - 1]

IsDigit(c) == c \in DOMAIN ValueOfDigit

DigitVal(c) == ValueOfDigit[c]

AllDigits(s) == \A i \in 1..Len(s) : IsDigit(s[i])

\* the number a string of digits denotes (0 for the empty string)
RECURSIVE DigitsVal(_)
DigitsVal(s) ==
  IF s = <<>> THEN 0
  ELSE 10 * DigitsVal(SubSeq(s, 1, Len(s) - 1)) + DigitVal(s[Len(s)])

\* m * 10^e in normal form
RECURSIVE Normal(_, _)
Normal(m, e) ==
  IF m = 0 THEN [m |-> 0, e |-> 0]
  ELSE IF m % 10 = 0 THEN Normal(m \div 10, e + 1)
       ELSE [m |-> m, e |-> e]

\* a stored value: a number (a Python float) or a raw token (a Python str)
Num(m, e) == [num |-> TRUE, m |-> Normal(m, e).m, e |-> Normal(m, e).e, s |-> <<>>]
Str(s) == [num |-> FALSE, m |-> 0, e |-> 0, s |-> s]

\* float(tok): [ok |-> whether tok is a float literal, val |-> its value]
ParseFloat(tok) ==
  LET signed == tok # <<>> /\ tok[1] \in {"+", "-"}
      body == IF signed THEN Tail(tok) ELSE tok
      epos == {i \in 1..Len(body) : body[i] \in {"e", "E"}}
      ep == IF epos = {} THEN 0 ELSE CHOOSE i \in epos : \A j \in epos : i <= j
      mant == IF ep = 0 THEN body ELSE SubSeq(body, 1, ep - 1)
      expo == IF ep = 0 THEN <<>> ELSE Drop(body, ep)
      expSigned == expo # <<>> /\ expo[1] \in {"+", "-"}
      expDigits == IF expSigned THEN Tail(expo) ELSE expo
      dots == {i \in 1..Len(mant) : mant[i] = "."}
      dot == IF dots = {} THEN Len(mant) + 1 ELSE CHOOSE i \in dots : TRUE
      intPart == SubSeq(mant, 1, dot - 1)
      fracPart == Drop(mant, dot)
      mantOk == /\ Cardinality(dots) <= 1
                /\ AllDigits(intPart) /\ AllDigits(fracPart)
                /\ Len(intPart) + Len(fracPart) >= 1
      expOk == ep = 0 \/ (expDigits # <<>> /\ AllDigits(expDigits))
      sgn == IF signed /\ tok[1] = "-" THEN -1 ELSE 1
      esgn == IF expSigned /\ expo[1] = "-" THEN -1 ELSE 1
  IN IF mantOk /\ expOk
     THEN [ok |-> TRUE,
           val |-> Num(sgn * DigitsVal(intPart \o fracPart),
                       esgn * DigitsVal(expDigits) - Len(fracPart))]
     ELSE [ok |-> FALSE, val |-> Str(tok)]

\* list(map(float, d)): the values, or a failure if any token is no literal
AllFloat(d) == \A i \in 1..Len(d) : ParseFloat(d[i]).ok
Floats(d) == [i \in 1..Len(d) |-> ParseFloat(d[i]).val]

(***************************************************************************)
(* FFEReader._col_hdr_map: the known column headers, in declaration order  *)
(***************************************************************************)

\* The regular expressions of the table.  Each is either '^a' (anchored:
\* a at the start) or 'a.*b' (a somewhere, b anywhere after it).
ColPatterns == <<
  [anchored |-> TRUE,  a |-> <<"t","h","e","t","a">>, b |-> <<>>],
  [anchored |-> TRUE,  a |-> <<"p","h","i">>,         b |-> <<>>],
  [anchored |-> FALSE, a |-> <<"r","e">>,             b |-> <<"e","t","h","e","t","a">>],
  [anchored |-> FALSE, a |-> <<"i","m">>,             b |-> <<"e","t","h","e","t","a">>],
  [anchored |-> FALSE, a |-> <<"r","e">>,             b |-> <<"e","p","h","i">>],
  [anchored |-> FALSE, a |-> <<"i","m">>,             b |-> <<"e","p","h","i">>],
  [anchored |-> FALSE, a |-> <<"d","i","r">>,         b |-> <<"t","h","e","t","a">>],
  [anchored |-> FALSE, a |-> <<"d","i","r">>,         b |-> <<"p","h","i">>],
  [anchored |-> FALSE, a |-> <<"d","i","r">>,         b |-> <<"t","o","t","a","l">>],
  [anchored |-> FALSE, a |-> <<"g","a","i","n">>,     b |-> <<"t","h","e","t","a">>],
  [anchored |-> FALSE, a |-> <<"g","a","i","n">>,     b |-> <<"p","h","i">>],
  [anchored |-> FALSE, a |-> <<"g","a","i","n">>,     b |-> <<"t","o","t","a","l">>] >>

\* The descriptor dicts of the table as the class body creates them.
ColTemplates == <<
  [quantity |-> "coordinate", vectorComponent |-> "theta", units |-> "degrees"],
  [quantity |-> "coordinate", vectorComponent |-> "phi", units |-> "degrees"],
  [quantity |-> "electric field", vectorComponent |-> "theta",
   phasorComponent |-> "real", units |-> "V/m"],
  [quantity |-> "electric field", vectorComponent |-> "theta",
   phasorComponent |-> "imaginary", units |-> "V/m"],
  [quantity |-> "electric field", vectorComponent |-> "phi",
   phasorComponent |-> "real", units |-> "V/m"],
  [quantity |-> "electric field", vectorComponent |-> "phi",
   phasorComponent |-> "imaginary", units |-> "V/m"],
  [quantity |-> "directivity", vectorComponent |-> "theta",
   phasorComponent |-> "magnitude", units |-> "dBi"],
  [quantity |-> "directivity", vectorComponent |-> "phi",
   phasorComponent |-> "magnitude", units |-> "dBi"],
  [quantity |-> "directivity", vectorComponent |-> "total",
   phasorComponent |-> "magnitude", units |-> "dBi"],
  [quantity |-> "gain", vectorComponent |-> "theta",
   phasorComponent |-> "magnitude", units |-> "dBi"],
  [quantity |-> "gain", vectorComponent |-> "phi",
   phasorComponent |-> "magnitude", units |-> "dBi"],
  [quantity |-> "gain", vectorComponent |-> "total",
   phasorComponent |-> "magnitude", units |-> "dBi"] >>

NumPatterns == Len(ColPatterns)

\* re.search(k, hdr, re.IGNORECASE) for the k-th pattern of the table
PatternMatches(k, hdr) ==
  LET p == ColPatterns[k]
      h == Lower(hdr)
  IN IF p.anchored
     THEN OccursAt(p.a, h, 1)
     ELSE \E i \in Occurrences(p.a, h) :
            \E j \in Occurrences(p.b, h) : j >= i + Len(p.a)

(***************************************************************************)
(* The parsers of single lines.  A parser that can raise returns a record  *)
(* whose exc field names the exception ("" when it returns normally).      *)
(***************************************************************************)

\* one key of the dict a header parser returns: key is the dict key ("*name"
\* stands for a key taken from the line, held in name), val its value
Assign(key, name, val) == [key |-> key, name |-> name, val |-> val]

\* d[key] = v on a dict
SetKey(d, key, v) == [x \in DOMAIN d \cup {key} |-> IF x = key THEN v ELSE d[x]]

\* Mutant of _is_header: the header pattern knows '#' only.
Mut_is_header_hash_only(line) == line # <<>> /\ line[1] = "#"

\* header_re.search(line) with header_re = ^(#|\*)
_is_header(line) == line # <<>> /\ line[1] \in {"#", "*"}

\* Mutant of ScanPatterns: the 'found a match' flag is not consulted, so the
\* last matching entry stands.
RECURSIVE Mut_ScanPatterns_last(_, _, _)
Mut_ScanPatterns_last(hdr, k, c) ==
  IF k > NumPatterns THEN c
  ELSE Mut_ScanPatterns_last(hdr, k + 1, IF PatternMatches(k, hdr) THEN k ELSE c)

\* The scan of the known headers for one column header: c is the index of
\* the entry chosen so far (0: none, the default header stands).
RECURSIVE ScanPatterns(_, _, _)
ScanPatterns(hdr, k, c) ==
  IF k > NumPatterns THEN c
  ELSE ScanPatterns(hdr, k + 1, IF c = 0 /\ PatternMatches(k, hdr) THEN k ELSE c)

\* One column: c is the table's own dict when an entry matched (a reference,
\* tmpl names the entry) and a new dict otherwise; c["data"] = [] is written
\* into whichever dict c is.
ColumnFor(hdr, table) ==
  LET k == ScanPatterns(hdr, 1, 0)
  IN IF k = 0
     THEN [col |-> [tmpl |-> 0,
                    own |-> <<[quantity |-> "unknown", description |-> hdr,
                               data |-> <<>>]>>],
           table |-> table]
     ELSE [col |-> [tmpl |-> k, own |-> <<>>],
           table |-> [table EXCEPT ![k] = SetKey(@, "data", <<>>)]]

\* the loop over hdrs
RECURSIVE ColumnsFor(_, _, _)
ColumnsFor(hdrs, cols, table) ==
  IF hdrs = <<>> THEN [cols |-> cols, table |-> table]
  ELSE LET r == ColumnFor(Head(hdrs), table)
       IN ColumnsFor(Tail(hdrs), Append(cols, r.col), r.table)

\* the column headers of the row: the quotes at both ends stripped, the rest
\* split on runs of quotes, bars and whitespace
ColumnLabels(line) ==
  Split(RStripBy(LStripBy(Strip(line), {"\""}), {"\""}), {"\"", "|"} \cup Space)

_parse_column_header(line, table) == ColumnsFor(ColumnLabels(line), <<>>, table)

\* k, d = re.split(r'\s*:\s+', line, maxsplit=1): the split is at the first
\* colon that whitespace follows; without one the unpacking raises.
KeyValueSplit(line) ==
  LET l == Strip(line)
      cps == {i \in 1..(Len(l) - 1) : l[i] = ":" /\ l[i + 1] \in Space}
      c == IF cps = {} THEN 0 ELSE CHOOSE i \in cps : \A j \in cps : i <= j
  IN IF c = 0
     THEN [ok |-> FALSE, k |-> l, d |-> <<>>]
     ELSE [ok |-> TRUE,
           k |-> RStripBy(SubSeq(l, 1, c - 1), Space),
           d |-> LStripBy(Drop(l, c), Space)]

\* the x, y, z tokens of an origin value
OriginTokens(d) == Split(RemoveAll(d, {"(", ")"} \cup Space), {"|", ","} \cup Space)

\* float(d) of a Frequency line (f: what ParseFloat returns)
FrequencyKey(f) ==
  IF f.ok
  THEN [exc |-> "",
        r |-> <<Assign("frequency", <<>>, [value |-> f.val, units |-> "Hz"])>>]
  ELSE [exc |-> "ValueError", r |-> <<>>]

\* p = list(map(float, ...)) of an Origin line, then p[0], p[1], p[2]
OriginKey(p) ==
  IF ~AllFloat(p) THEN [exc |-> "ValueError", r |-> <<>>]
  ELSE IF Len(p) < 3 THEN [exc |-> "IndexError", r |-> <<>>]
  ELSE [exc |-> "",
        r |-> <<Assign("position", <<>>,
                       [units |-> "meters", x |-> ParseFloat(p[1]).val,
                        y |-> ParseFloat(p[2]).val, z |-> ParseFloat(p[3]).val])>>]

\* the chain of tests on the key k, with the value d
KeyValue(ok, k, d) ==
  IF ~ok THEN [exc |-> "ValueError", r |-> <<>>]
  ELSE IF MatchI(<<"s","o","u","r","c","e">>, k)
    THEN [exc |-> "", r |-> <<Assign("source", <<>>, d)>>]
  ELSE IF MatchI(<<"d","a","t","e">>, k)
    THEN [exc |-> "", r |-> <<Assign("date", <<>>, d)>>]
  ELSE IF MatchI(<<"f","r","e","q","u","e","n","c","y">>, k)
    THEN FrequencyKey(ParseFloat(d))
  ELSE IF MatchI(<<"o","r","i","g","i","n">>, k)
    THEN OriginKey(OriginTokens(d))
  ELSE IF SearchI(<<"n","a","m","e">>, k)
    THEN [exc |-> "", r |-> <<Assign("*name", k, d)>>]
  ELSE [exc |-> "", r |-> <<>>]

\* kd: what the split of the line gives
KeyValueOf(kd) == KeyValue(kd.ok, kd.k, kd.d)

_parse_keyvalue_header(line) == KeyValueOf(KeyValueSplit(line))

\* re.sub(r'.*exported by\s*', r'', l): the pattern is matched as written (in
\* lower case); .* is greedy, so the text up to and including the last
\* "exported by" and the whitespace after it is removed.
AfterExportedBy(l) ==
  LET pat == <<"e","x","p","o","r","t","e","d"," ","b","y">>
      occ == Occurrences(pat, l)
      last == CHOOSE i \in occ : \A j \in occ : j <= i
  IN IF occ = {} THEN l ELSE LStripBy(Drop(l, last + Len(pat) - 1), Space)

\* re.sub(r'^(#|\*|\s)+', r'', line.lstrip().rstrip())
StripMarks(line) == LStripBy(Strip(line), {"#", "*"} \cup Space)

\* the dict of a column-header row (c: what _parse_column_header returns)
ColumnKeys(c) ==
  [exc |-> "", r |-> <<Assign("data", <<>>, c.cols)>>, table |-> c.table]

\* the dict of a key: value line (kv: what _parse_keyvalue_header returns)
KeyValueKeys(kv, table) == [exc |-> kv.exc, r |-> kv.r, table |-> table]

\* the header line l with its marks stripped
HeaderOf(l, table) ==
  IF l # <<>> /\ l[1] = "\""
    THEN ColumnKeys(_parse_column_header(l, table))
  ELSE IF \E i \in 1..Len(l) : l[i] = ":"
    THEN KeyValueKeys(_parse_keyvalue_header(l), table)
  ELSE IF SearchI(<<"e","x","p","o","r","t","e","d"," ","b","y">>, l)
    THEN [exc |-> "", r |-> <<Assign("source", <<>>, AfterExportedBy(l))>>,
          table |-> table]
  ELSE [exc |-> "", r |-> <<Assign("description", <<>>, l)>>, table |-> table]

\* [exc, r: the keys of the returned dict, table: the table afterwards]
_parse_header(line, table) == HeaderOf(StripMarks(line), table)

\* Mutant of _parse_data_line: each token is converted on its own.
Mut_parse_data_line_per_token(line) ==
  LET d == Split(line, Space)
  IN IF \A i \in 1..Len(line) : line[i] \in Space
       THEN [none |-> TRUE, row |-> <<>>]
     ELSE IF Len(d[1]) = 0 THEN [none |-> TRUE, row |-> <<>>]
     ELSE [none |-> FALSE, row |-> [i \in 1..Len(d) |-> ParseFloat(d[i]).val]]

\* [none: whether None is returned, row: the row otherwise]
_parse_data_line(line) ==
  LET d == Split(line, Space)
  IN IF \A i \in 1..Len(line) : line[i] \in Space
       THEN [none |-> TRUE, row |-> <<>>]
     ELSE IF Len(d[1]) = 0 THEN [none |-> TRUE, row |-> <<>>]
     ELSE IF AllFloat(d) THEN [none |-> FALSE, row |-> Floats(d)]
     ELSE [none |-> FALSE, row |-> [i \in 1..Len(d) |-> Str(d[i])]]

(***************************************************************************)
(* FFEReader.read: the state of a call, and what one line does to it       *)
(***************************************************************************)

\* FFEReader._top_level_keys
_top_level_keys == {"date", "source"}

\* A top-level value of contents: absent, a scalar (items holds it) or a list.
Absent == [kind |-> "absent", items |-> <<>>]
ListOf(items) == [kind |-> "list", items |-> items]
Scalar(v) == [kind |-> "scalar", items |-> <<v>>]

\* contents = {"data": [], "source": ["FEKO"]}
InitialContents ==
  [data |-> <<>>, source |-> ListOf(<<<<"F","E","K","O">>>>), date |-> Absent]

\* dataset = {}: every key absent
EmptyDataset ==
  [frequency |-> <<>>, position |-> <<>>, description |-> <<>>,
   names |-> <<>>, data |-> <<>>]

\* the dict a column of the dataset being built refers to
ColumnDict(col, table) == IF col.tmpl = 0 THEN col.own[1] ELSE table[col.tmpl]

\* copy.deepcopy(dataset): every column dict is copied as it is now; two
\* columns referring to one dict (the same tmpl) refer to one copy
DeepCopy(ds, table) ==
  IF ds.data = <<>> THEN ds
  ELSE LET cols == ds.data[1]
       IN [ds EXCEPT !.data =
             <<[i \in 1..Len(cols) |->
                  [tmpl |-> cols[i].tmpl, dict |-> ColumnDict(cols[i], table)]]>>]

\* Mutant of Seal: a dataset without data rows is not appended.
Mut_Seal_skip_empty(contents, dataset, table) ==
  IF dataset = <<>> THEN contents
  ELSE IF dataset[1].data = <<>> THEN contents
  ELSE IF \A i \in 1..Len(dataset[1].data[1]) :
            ColumnDict(dataset[1].data[1][i], table).data = <<>>
    THEN contents
  ELSE [contents EXCEPT !.data = Append(@, DeepCopy(dataset[1], table))]

\* Mutant of Seal: the copy takes the place of the datasets appended before.
Mut_Seal_replace(contents, dataset, table) ==
  IF dataset = <<>> THEN contents
  ELSE [contents EXCEPT !.data = <<DeepCopy(dataset[1], table)>>]

\* contents["data"].append(copy.deepcopy(dataset)) if dataset is not None
Seal(contents, dataset, table) ==
  IF dataset = <<>> THEN contents
  ELSE [contents EXCEPT !.data = Append(@, DeepCopy(dataset[1], table))]

\* Mutant of MergeTop: the key is always overwritten.
Mut_MergeTop_overwrite(old, v) == Scalar(v)

\* the try/except of a top-level key: set it if new, else append to it, and
\* overwrite it when it cannot be appended to
MergeTop(old, v) ==
  IF old.kind = "absent" THEN Scalar(v)
  ELSE IF old.kind = "list" THEN ListOf(Append(old.items, v))
  ELSE Scalar(v)

\* dataset[k] = d for a key k taken from the line
SetName(names, k, d) ==
  IF \E i \in 1..Len(names) : names[i][1] = k
  THEN [i \in 1..Len(names) |-> IF names[i][1] = k THEN <<k, d>> ELSE names[i]]
  ELSE Append(names, <<k, d>>)

\* the loop over line.keys()
RECURSIVE MergeKeys(_, _, _)
MergeKeys(r, contents, ds) ==
  IF r = <<>> THEN [contents |-> contents, ds |-> ds]
  ELSE LET a == Head(r)
       IN IF a.key \in _top_level_keys
          THEN MergeKeys(Tail(r),
                         [contents EXCEPT ![a.key] = MergeTop(@, a.val)], ds)
          ELSE IF a.key = "*name"
          THEN MergeKeys(Tail(r), contents,
                         [ds EXCEPT !.names = SetName(@, a.name, a.val)])
          ELSE MergeKeys(Tail(r), contents, [ds EXCEPT ![a.key] = <<a.val>>])

\* Mutant of Propagates: the loop body swallows every exception.
Mut_Propagates_swallowed(e) == FALSE

\* read wraps no call of a parser in a handler: an exception a parser raises
\* ends the call of read
Propagates(e) == e # ""

\* contents once the dataset in progress is closed, if the header line opens
\* a new one
Sealed(st, table) ==
  IF st.new_ds_on_next_header THEN Seal(st.contents, st.dataset, table)
  ELSE st.contents

\* the dataset the keys of the header line go to
Current(st) ==
  IF st.new_ds_on_next_header THEN EmptyDataset ELSE st.dataset[1]

\* the locals once the keys are merged (m: what MergeKeys returns)
Merged(m, table) ==
  [contents |-> m.contents, dataset |-> <<m.ds>>,
   new_ds_on_next_header |-> FALSE, table |-> table, exc |-> ""]

\* line: what _parse_header returned or raised for the header line
AfterHeader(sealed, ds, table, line) ==
  IF Propagates(line.exc)
  THEN [contents |-> sealed, dataset |-> <<ds>>,
        new_ds_on_next_header |-> FALSE, table |-> table, exc |-> line.exc]
  ELSE Merged(MergeKeys(line.r, sealed, ds), line.table)

\* A header line l (stripped).  st holds the locals contents, dataset and
\* new_ds_on_next_header; the result holds them afterwards, the table
\* afterwards, and the exception raised ("" for none).
HeaderStep(st, table, l) ==
  AfterHeader(Sealed(st, table), Current(st), table, _parse_header(l, table))

\* dataset["data"][i]["data"].append(line[i]) for i in range(len(line)), in
\* order: each append goes to the dict the column refers to at that moment
RECURSIVE AppendRow(_, _, _, _)
AppendRow(cols, table, row, i) ==
  IF i > Len(row) THEN [cols |-> cols, table |-> table]
  ELSE IF cols[i].tmpl = 0
       THEN AppendRow([cols EXCEPT ![i].own[1].data = Append(@, row[i])],
                      table, row, i + 1)
       ELSE AppendRow(cols,
                      [table EXCEPT ![cols[i].tmpl].data = Append(@, row[i])],
                      row, i + 1)

\* Mutant of DataStep: a data row does not set new_ds_on_next_header.
Mut_DataStep_no_arm(st, table, l) ==
  LET line == _parse_data_line(l)
      same == [contents |-> st.contents, dataset |-> st.dataset,
               new_ds_on_next_header |-> st.new_ds_on_next_header,
               table |-> table, exc |-> ""]
  IN IF line.none THEN same
     ELSE IF st.dataset = <<>> THEN [same EXCEPT !.exc = "TypeError"]
     ELSE IF st.dataset[1].data = <<>> THEN [same EXCEPT !.exc = "KeyError"]
     ELSE IF Len(st.dataset[1].data[1]) = Len(line.row)
       THEN LET a == AppendRow(st.dataset[1].data[1], table, line.row, 1)
            IN [same EXCEPT !.dataset[1].data[1] = a.cols, !.table = a.table]
     ELSE same

\* Mutant of DataStep: only a row that is appended sets
\* new_ds_on_next_header.
Mut_DataStep_arm_on_append(st, table, l) ==
  LET line == _parse_data_line(l)
      same == [contents |-> st.contents, dataset |-> st.dataset,
               new_ds_on_next_header |-> st.new_ds_on_next_header,
               table |-> table, exc |-> ""]
  IN IF line.none THEN same
     ELSE IF st.dataset = <<>> THEN [same EXCEPT !.exc = "TypeError"]
     ELSE IF st.dataset[1].data = <<>> THEN [same EXCEPT !.exc = "KeyError"]
     ELSE IF Len(st.dataset[1].data[1]) = Len(line.row)
       THEN LET a == AppendRow(st.dataset[1].data[1], table, line.row, 1)
            IN [same EXCEPT !.new_ds_on_next_header = TRUE,
                            !.dataset[1].data[1] = a.cols,
                            !.table = a.table]
     ELSE same

\* A line l (stripped) that is no header line.
DataStep(st, table, l) ==
  LET line == _parse_data_line(l)
      same == [contents |-> st.contents, dataset |-> st.dataset,
               new_ds_on_next_header |-> st.new_ds_on_next_header,
               table |-> table, exc |-> ""]
  IN IF line.none THEN same
     ELSE IF st.dataset = <<>>
       THEN [same EXCEPT !.new_ds_on_next_header = TRUE, !.exc = "TypeError"]
     ELSE IF st.dataset[1].data = <<>>
       THEN [same EXCEPT !.new_ds_on_next_header = TRUE, !.exc = "KeyError"]
     ELSE IF Len(st.dataset[1].data[1]) = Len(line.row)
       THEN LET a == AppendRow(st.dataset[1].data[1], table, line.row, 1)
            IN [same EXCEPT !.new_ds_on_next_header = TRUE,
                            !.dataset[1].data[1] = a.cols,
                            !.table = a.table]
     ELSE [same EXCEPT !.new_ds_on_next_header = TRUE]

\* one pass of the loop body for the line l of the file
LineStep(st, table, l) ==
  IF _is_header(Strip(l)) THEN HeaderStep(st, table, Strip(l))
  ELSE DataStep(st, table, Strip(l))

\* the locals of read before the loop
InitialLocals ==
  [contents |-> InitialContents, dataset |-> <<>>, new_ds_on_next_header |-> TRUE]

(***************************************************************************)
(* The inputs: files are sequences of lines drawn from the lines below     *)
(***************************************************************************)

\* #"Theta" "Phi"
L_ColTP ==
  <<"#","\"","T","h","e","t","a","\""," ","\"","P","h","i","\"">>

\* #"Theta" "Theta" "Phi"
L_ColTTP ==
  <<"#","\"","T","h","e","t","a","\""," ","\"","T","h","e","t","a","\""," ","\"","P","h","i","\"">>

\* #"Gain(Theta,Phi)"  "Foo"
L_ColGF ==
  <<"#","\"","G","a","i","n","(","T","h","e","t","a",",","P","h","i",")","\""," "," ","\"","F","o","o","\"">>

\* #Frequency: 1e9
L_Freq ==
  <<"#","F","r","e","q","u","e","n","c","y",":"," ","1","e","9">>

\* #Frequency: abc
L_FreqBad ==
  <<"#","F","r","e","q","u","e","n","c","y",":"," ","a","b","c">>

\* #Origin: (0,0,0)
L_Orig ==
  <<"#","O","r","i","g","i","n",":"," ","(","0",",","0",",","0",")">>

\* #Origin: (1,2)
L_OrigBad ==
  <<"#","O","r","i","g","i","n",":"," ","(","1",",","2",")">>

\* #Date: d1
L_Date1 ==
  <<"#","D","a","t","e",":"," ","d","1">>

\* #Date: d2
L_Date2 ==
  <<"#","D","a","t","e",":"," ","d","2">>

\* #Source: Vendor X
L_Src ==
  <<"#","S","o","u","r","c","e",":"," ","V","e","n","d","o","r"," ","X">>

\* ** Exported by FEKO
L_Banner ==
  <<"*","*"," ","E","x","p","o","r","t","e","d"," ","b","y"," ","F","E","K","O">>

\* 1.0 2.5
L_Row2 ==
  <<"1",".","0"," ","2",".","5">>

\* 1 2 3
L_Row3 ==
  <<"1"," ","2"," ","3">>

\* 1 a
L_Row2s ==
  <<"1"," ","a">>

\* (a line of one space)
L_Blank ==
  <<" ">>

\* #"Theta" "Phi" "Re(Etheta)"
L_ColTPR ==
  <<"#","\"","T","h","e","t","a","\""," ","\"","P","h","i","\""," ","\"","R","e","(","E","t","h","e","t","a",")","\"">>

\* "Theta" "Phi" "Re(Etheta)"
L_ColTPRbare ==
  <<"\"","T","h","e","t","a","\""," ","\"","P","h","i","\""," ","\"","R","e","(","E","t","h","e","t","a",")","\"">>

\* #"Theta" "Phi" "Re(Etheta)" "Foo"
L_ColTPRF ==
  <<"#","\"","T","h","e","t","a","\""," ","\"","P","h","i","\""," ","\"","R","e","(","E","t","h","e","t","a",")","\""," ","\"","F","o","o","\"">>

\* 0.0 0.0 1.23
L_RowA ==
  <<"0",".","0"," ","0",".","0"," ","1",".","2","3">>

\* 1.0 0.0 1.45
L_RowB ==
  <<"1",".","0"," ","0",".","0"," ","1",".","4","5">>

\* #Foo:bar
L_FooBar ==
  <<"#","F","o","o",":","b","a","r">>

\* #Foo:
L_FooColon ==
  <<"#","F","o","o",":">>

\* #Foo: bar
L_FooSp ==
  <<"#","F","o","o",":"," ","b","a","r">>

\* ** exported by FEKO
L_BannerLower ==
  <<"*","*"," ","e","x","p","o","r","t","e","d"," ","b","y"," ","F","E","K","O">>

\* #Origin: 1 2 3
L_OrigWs ==
  <<"#","O","r","i","g","i","n",":"," ","1"," ","2"," ","3">>

\* #Origin: (1, 2, 3)
L_OrigParen ==
  <<"#","O","r","i","g","i","n",":"," ","(","1",","," ","2",","," ","3",")">>

\* #Origin: 1, 2 3
L_OrigMixed ==
  <<"#","O","r","i","g","i","n",":"," ","1",","," ","2"," ","3">>

\* the lines files are freely composed of
Lines == <<L_ColTP, L_ColTTP, L_Freq, L_FreqBad, L_OrigBad,
          L_Date1, L_Date2, L_Src, L_Banner,
          L_Row2, L_Row3, L_Row2s, L_Blank>>

\* the longest freely composed file
MaxLines == 3

\* the sequences over 1..n of length at most len
RECURSIVE SeqsUpTo(_, _)
SeqsUpTo(n, len) ==
  IF len = 0 THEN {<<>>}
  ELSE LET shorter == SeqsUpTo(n, len - 1)
       IN shorter \cup {Append(q, i) : q \in shorter, i \in 1..n}

FreeFiles == {[i \in 1..Len(q) |-> Lines[q[i]]] : q \in SeqsUpTo(Len(Lines), MaxLines)}

\* the example file of the specification's testable properties, as written
\* there (the column-header row carries no marker) and with the row marked
SpecExample == <<L_Banner, L_Freq, L_Orig, L_ColTPRbare, L_RowA, L_RowB>>
SpecExampleMarked == <<L_Banner, L_Freq, L_Orig, L_ColTPR, L_RowA, L_RowB>>

\* Blocks: header lines with a marked column-header row, then data rows of
\* which at least one has as many tokens as the row has labels
Blocks == <<
  <<L_Freq, L_ColTP, L_Row2>>,
  <<L_ColTTP, L_Orig, L_Row3, L_Row2, L_Row3>>,
  <<L_Banner, L_ColGF, L_Blank, L_Row2s, L_Row2>> >>

\* the most blocks in a file
MaxBlocks == 2

RECURSIVE Concat(_, _)
Concat(q, i) == IF i > Len(q) THEN <<>> ELSE Blocks[q[i]] \o Concat(q, i + 1)

BlockSeqs == SeqsUpTo(Len(Blocks), MaxBlocks) \ {<<>>}
BlockFiles == {Concat(q, 1) : q \in BlockSeqs}

ExampleFiles ==
  {SpecExample, SpecExampleMarked, <<L_ColTPRF>>, <<L_ColGF, L_Row2s, L_Orig>>,
   <<L_FooBar>>, <<L_Date1, L_FooColon>>, <<L_ColTP, L_FooSp, L_Row2>>,
   <<L_BannerLower, L_ColTP>>,
   <<L_OrigWs>>, <<L_ColTP, L_OrigMixed>>, <<L_OrigParen, L_ColTP, L_Row2>>}

Files == FreeFiles \cup BlockFiles \cup ExampleFiles

\* the lines of the files parsed in parallel, and the longest such file
ParLines == <<L_ColTP, L_ColTTP, L_Row2, L_Row3>>

MaxParLines == 2

ParFiles ==
  {[i \in 1..Len(q) |-> ParLines[q[i]]] : q \in SeqsUpTo(Len(ParLines), MaxParLines)}

(***************************************************************************)
(* The state machine                                                        *)
(***************************************************************************)

\* the calls of read that may be in progress at once
Readers == {1, 2}

VARIABLES
  _col_hdr_map,           \* the class attribute: the table's dicts, shared
  pc,                     \* per call: "idle", "reading", "returned", "raised"
  fp,                     \* per call: the lines of its file
  pos,                    \* per call: the index of the next line of the loop
  contents,               \* per call: the local contents
  dataset,                \* per call: the local dataset (<<>> is None)
  new_ds_on_next_header,  \* per call: the local flag
  exc,                    \* per call: the exception that ended it, if any
  result,                 \* per call: the returned dict (<<>>: none yet)
  rows                    \* history, per call: for each dataset begun, how many
                          \* data rows had as many tokens as it had columns

vars == <<_col_hdr_map, pc, fp, pos, contents, dataset, new_ds_on_next_header,
          exc, result, rows>>

Init ==
  /\ _col_hdr_map = ColTemplates
  /\ pc = [p \in Readers |-> "idle"]
  /\ fp = [p \in Readers |-> <<>>]
  /\ pos = [p \in Readers |-> 1]
  /\ contents = [p \in Readers |-> InitialContents]
  /\ dataset = [p \in Readers |-> <<>>]
  /\ new_ds_on_next_header = [p \in Readers |-> TRUE]
  /\ exc = [p \in Readers |-> ""]
  /\ result = [p \in Readers |-> <<>>]
  /\ rows = [p \in Readers |-> <<>>]

Locals(p) ==
  [contents |-> contents[p], dataset |-> dataset[p],
   new_ds_on_next_header |-> new_ds_on_next_header[p]]

\* the line the loop of call p is at, stripped
CurrentLine(p) == Strip(fp[p][pos[p]])

\* the locals and the table after a pass of the loop, and how the pass ended
Advance(p, r) ==
  /\ _col_hdr_map' = r.table
  /\ contents' = [contents EXCEPT ![p] = r.contents]
  /\ dataset' = [dataset EXCEPT ![p] = r.dataset]
  /\ new_ds_on_next_header' =
       [new_ds_on_next_header EXCEPT ![p] = r.new_ds_on_next_header]
  /\ exc' = [exc EXCEPT ![p] = IF Propagates(r.exc) THEN r.exc ELSE ""]
  /\ pc' = [pc EXCEPT ![p] = IF Propagates(r.exc) THEN "raised" ELSE "reading"]
  /\ pos' = [pos EXCEPT ![p] = @ + 1]
  /\ UNCHANGED <<fp, result>>

\* read(fp) is called: the locals are set up and the lines read
Call(p, files) ==
  /\ pc[p] = "idle"
  /\ \E f \in files : fp' = [fp EXCEPT ![p] = f]
  /\ pc' = [pc EXCEPT ![p] = "reading"]
  /\ UNCHANGED <<_col_hdr_map, pos, contents, dataset, new_ds_on_next_header,
                 exc, result, rows>>

\* a pass of the loop over a header line
HeaderLine(p) ==
  /\ pc[p] = "reading"
  /\ pos[p] <= Len(fp[p])
  /\ _is_header(CurrentLine(p))
  /\ Advance(p, HeaderStep(Locals(p), _col_hdr_map, CurrentLine(p)))
  /\ rows' = [rows EXCEPT ![p] =
                IF new_ds_on_next_header[p] THEN Append(@, 0) ELSE @]

\* a pass of the loop over any other line
DataLine(p) ==
  /\ pc[p] = "reading"
  /\ pos[p] <= Len(fp[p])
  /\ ~_is_header(CurrentLine(p))
  /\ Advance(p, DataStep(Locals(p), _col_hdr_map, CurrentLine(p)))
  /\ rows' = [rows EXCEPT ![p] =
                IF /\ ~_parse_data_line(CurrentLine(p)).none
                   /\ dataset[p] # <<>>
                   /\ dataset[p][1].data # <<>>
                   /\ Len(dataset[p][1].data[1]) =
                        Len(_parse_data_line(CurrentLine(p)).row)
                THEN [@ EXCEPT ![Len(@)] = @ + 1]
                ELSE @]

\* the end of the file: the last dataset is appended and contents returned
EndOfFile(p) ==
  /\ pc[p] = "reading"
  /\ pos[p] > Len(fp[p])
  /\ contents' = [contents EXCEPT ![p] = Seal(@, dataset[p], _col_hdr_map)]
  /\ result' = [result EXCEPT ![p] = <<contents'[p]>>]
  /\ pc' = [pc EXCEPT ![p] = "returned"]
  /\ UNCHANGED <<_col_hdr_map, fp, pos, dataset, new_ds_on_next_header, exc, rows>>

\* one call of read
Next ==
  \/ Call(1, Files)
  \/ HeaderLine(1)
  \/ DataLine(1)
  \/ EndOfFile(1)

Spec == Init /\ [][Next]_vars

\* two calls of read, one per file, their loops interleaved line by line
NextPar ==
  \E p \in Readers :
    \/ Call(p, ParFiles)
    \/ HeaderLine(p)
    \/ DataLine(p)
    \/ EndOfFile(p)

SpecPar == Init /\ [][NextPar]_vars

\* read(f) run on its own, from the table as the class body creates it:
\* [exc |-> the exception raised, result |-> <<the returned dict>>]
RECURSIVE RunLines(_, _, _, _)
RunLines(st, table, f, i) ==
  IF i > Len(f)
  THEN [exc |-> "", result |-> <<Seal(st.contents, st.dataset, table)>>]
  ELSE LET r == LineStep(st, table, f[i])
       IN IF Propagates(r.exc) THEN [exc |-> r.exc, result |-> <<>>]
          ELSE RunLines([contents |-> r.contents, dataset |-> r.dataset,
                         new_ds_on_next_header |-> r.new_ds_on_next_header],
                        r.table, f, i + 1)

ReadAlone(f) == RunLines(InitialLocals, ColTemplates, f, 1)

(***************************************************************************)
(* The claims                                                               *)
(***************************************************************************)

\* the pieces of s between runs of the characters cs, the empty ones left out
Pieces(s, cs) == SelectSeq(Split(s, cs), LAMBDA t : t # <<>>)

\* the call p has ended, by returning or by raising
Ended(p) == pc[p] \in {"returned", "raised"}

\* the lines the loop of call p has been through
Done(p) == 1..(pos[p] - 1)

\* the value sequences of the columns of a dataset of a returned Document
ColumnData(d) == [i \in 1..Len(d.data[1]) |-> d.data[1][i].dict.data]

\* C1: in a returned Document every dataset has all its columns' value
\* sequences of one length, the number of the dataset's data rows whose token
\* count equalled the column count -- for every column-header row, also one
\* in which two labels match the same entry of the table.
C1_ColumnLengths ==
  \A p \in Readers :
    result[p] # <<>> =>
      \A j \in 1..Len(result[p][1].data) :
        LET d == result[p][1].data[j]
        IN d.data # <<>> =>
             \A i \in 1..Len(d.data[1]) : Len(ColumnData(d)[i]) = rows[p][j]

\* whether a line of a file is a header line, and whether it is blank
IsHeaderLine(l) == _is_header(Strip(l))
IsBlankLine(l) == Strip(l) = <<>>

\* The header lines among the first n lines of f that begin a dataset by the
\* boundary law: the first header line of the file, and every header line
\* with a non-blank data line between it and the header line before it.
BoundaryLines(f, n) ==
  {i \in 1..n :
     /\ IsHeaderLine(f[i])
     /\ \/ \A j \in 1..(i - 1) : ~IsHeaderLine(f[j])
        \/ \E j \in 1..(i - 1) :
             /\ ~IsHeaderLine(f[j]) /\ ~IsBlankLine(f[j])
             /\ \A k \in (j + 1)..(i - 1) : ~IsHeaderLine(f[k])}

\* the datasets call p has begun: those sealed and the one in progress
Begun(p) == Len(contents[p].data) + (IF dataset[p] = <<>> THEN 0 ELSE 1)

\* C2: the dataset boundary law.  While a file is read, the datasets begun
\* are as many as the header lines that open a run of header lines (a run
\* is broken only by a non-blank data line), so the headers of a run go to
\* one dataset and a header after a data row begins a new one; and a file of
\* N blocks returns N datasets, in block order, each the dataset its block
\* gives when parsed on its own.
C2_BoundaryLaw ==
  \A p \in Readers :
    /\ pc[p] = "reading" =>
         Begun(p) = Cardinality(BoundaryLines(fp[p], pos[p] - 1))
    /\ result[p] # <<>> =>
         Len(result[p][1].data) = Cardinality(BoundaryLines(fp[p], Len(fp[p])))
    /\ \A q \in BlockSeqs :
         (Ended(p) /\ fp[p] = Concat(q, 1)) =>
           /\ result[p] # <<>>
           /\ Len(result[p][1].data) = Len(q)
           /\ \A j \in 1..Len(q) :
                result[p][1].data[j] = ReadAlone(Blocks[q[j]]).result[1].data[1]

\* a file of two different blocks has returned its two datasets
C2_Witness ==
  /\ fp[1] = Concat(<<1, 2>>, 1)
  /\ pc[1] = "returned"
  /\ Len(result[1][1].data) = 2
  /\ result[1][1].data[1].frequency # <<>>
  /\ result[1][1].data[2].frequency = <<>>

\* what the specification's example is said to give: one dataset, frequency
\* 1e9, position 0,0,0, theta values 0.0, 1.0, Re(Etheta) values 1.23, 1.45,
\* every column of length 2
ExampleDocument(p) ==
  /\ result[p] # <<>>
  /\ Len(result[p][1].data) = 1
  /\ LET d == result[p][1].data[1]
     IN /\ d.frequency # <<>>
        /\ d.frequency[1].value = Num(1, 9)
        /\ d.position # <<>>
        /\ d.position[1].x = Num(0, 0)
        /\ d.position[1].y = Num(0, 0)
        /\ d.position[1].z = Num(0, 0)
        /\ d.data # <<>>
        /\ Len(d.data[1]) = 3
        /\ d.data[1][1].dict.vectorComponent = "theta"
        /\ d.data[1][1].dict.quantity = "coordinate"
        /\ ColumnData(d)[1] = <<Num(0, 0), Num(1, 0)>>
        /\ d.data[1][3].dict.quantity = "electric field"
        /\ d.data[1][3].dict.phasorComponent = "real"
        /\ ColumnData(d)[3] = <<Num(123, -2), Num(145, -2)>>
        /\ \A i \in 1..3 : Len(ColumnData(d)[i]) = 2

\* C3 as stated: the six lines of the example, the column-header row without
\* a marker, give the example's Document.
C3_ExampleAsWritten ==
  \A p \in Readers : (fp[p] = SpecExample /\ Ended(p)) => ExampleDocument(p)

\* C3 amended: the six lines of the example with the column-header row
\* marked as a header line (#"Theta" "Phi" "Re(Etheta)") give the example's
\* Document.
C3_ExampleMarked ==
  \A p \in Readers : (fp[p] = SpecExampleMarked /\ Ended(p)) => ExampleDocument(p)

C3_Witness == fp[1] = SpecExampleMarked /\ pc[1] = "returned"

\* the value sequence of column i of the dataset call p is building
Values(p, i) == ColumnDict(dataset[p][1].data[1][i], _col_hdr_map).data

\* C4: with a layout of k columns in progress, a non-blank data row of another
\* token count changes no value sequence and no key and does not fail, and a
\* row of k tokens appends token i, and nothing else, to column i.
C4_RowAppend ==
  [][\A p \in Readers :
       ( /\ pc[p] = "reading"
         /\ pos'[p] = pos[p] + 1
         /\ ~IsHeaderLine(fp[p][pos[p]])
         /\ ~IsBlankLine(fp[p][pos[p]])
         /\ dataset[p] # <<>>
         /\ dataset[p][1].data # <<>> )
       => LET k == Len(dataset[p][1].data[1])
              row == _parse_data_line(CurrentLine(p)).row
          IN IF Len(Pieces(fp[p][pos[p]], Space)) # k
             THEN /\ pc'[p] = "reading"
                  /\ contents'[p] = contents[p]
                  /\ dataset'[p] = dataset[p]
                  /\ \A i \in 1..k : Values(p, i)' = Values(p, i)
             ELSE /\ pc'[p] = "reading"
                  /\ \A i \in 1..k : Values(p, i)' = Append(Values(p, i), row[i])
    ]_vars

\* the text of a header line after its markers, its key (the text before the
\* first colon) and its value (the text after it)
HeaderText(l) == StripMarks(l)
FirstColon(t) == CHOOSE i \in 1..Len(t) : t[i] = ":" /\ \A j \in 1..(i - 1) : t[j] # ":"
KeyOf(l) == Strip(SubSeq(HeaderText(l), 1, FirstColon(HeaderText(l)) - 1))
ValueOf(l) == Strip(Drop(HeaderText(l), FirstColon(HeaderText(l))))

\* a key/value header: a header line, no column-header row, with a colon
IsKeyValueLine(l) ==
  /\ IsHeaderLine(l)
  /\ HeaderText(l) # <<>>
  /\ HeaderText(l)[1] # "\""
  /\ \E i \in 1..Len(HeaderText(l)) : HeaderText(l)[i] = ":"

\* the components of an origin value: what commas and whitespace separate,
\* the parentheses left out
Components(v) == Pieces(RemoveAll(v, {"(", ")"}), {","} \cup Space)

BadFrequency(l) ==
  /\ IsKeyValueLine(l)
  /\ MatchI(<<"f","r","e","q","u","e","n","c","y">>, KeyOf(l))
  /\ ~ParseFloat(ValueOf(l)).ok

BadOrigin(l) ==
  /\ IsKeyValueLine(l)
  /\ MatchI(<<"o","r","i","g","i","n">>, KeyOf(l))
  /\ Len(SelectSeq(Components(ValueOf(l)), LAMBDA t : ParseFloat(t).ok)) < 3

\* C5: once the loop has been through a Frequency header with a non-numeric
\* value or an Origin header with fewer than three numeric components, the
\* call has failed and returns no Document, wherever the line stands and
\* whatever was sealed before it.
C5_FatalHeader ==
  \A p \in Readers :
    \A i \in Done(p) :
      (BadFrequency(fp[p][i]) \/ BadOrigin(fp[p][i])) =>
        pc[p] = "raised" /\ result[p] = <<>>

\* a bad Frequency header met after a dataset had been sealed
C5_Witness ==
  /\ pc[1] = "raised"
  /\ Len(contents[1].data) = 1
  /\ BadFrequency(fp[1][pos[1] - 1])

\* a column-header row: a header line whose text begins with a double quote
IsColumnRow(l) ==
  IsHeaderLine(l) /\ HeaderText(l) # <<>> /\ HeaderText(l)[1] = "\""

\* the label tokens of a column-header row
Labels(l) == Pieces(HeaderText(l), {"\""} \cup Space)

\* the entries of the table whose pattern matches a label
Matching(tok) == {k \in 1..NumPatterns : PatternMatches(k, tok)}

\* the column a label is said to give: the descriptor of the first matching
\* entry, or the unknown descriptor, with an empty value sequence
ColumnOf(tok) ==
  IF Matching(tok) = {}
  THEN [quantity |-> "unknown", description |-> tok, data |-> <<>>]
  ELSE SetKey(ColTemplates[CHOOSE k \in Matching(tok) :
                             \A j \in Matching(tok) : k <= j],
              "data", <<>>)

\* the columns of the dataset call p is building, as dicts
Layout(p) ==
  [i \in 1..Len(dataset[p][1].data[1]) |->
     ColumnDict(dataset[p][1].data[1][i], _col_hdr_map)]

\* C6: after a column-header row of k labels the layout has k columns, in
\* label order, column i the descriptor of the first entry of the table that
\* matches label i, or unknown with the label as description, each with an
\* empty value sequence; "Theta" "Phi" "Re(Etheta)" "Foo" gives the four
\* columns the specification names.
C6_ColumnLayout ==
  \A p \in Readers :
    (pc[p] = "reading" /\ pos[p] > 1 /\ IsColumnRow(fp[p][pos[p] - 1])) =>
      /\ dataset[p] # <<>>
      /\ dataset[p][1].data # <<>>
      /\ Len(Layout(p)) = Len(Labels(fp[p][pos[p] - 1]))
      /\ \A i \in 1..Len(Layout(p)) :
           Layout(p)[i] = ColumnOf(Labels(fp[p][pos[p] - 1])[i])
      /\ fp[p][pos[p] - 1] = L_ColTPRF =>
           Layout(p) =
             <<[quantity |-> "coordinate", vectorComponent |-> "theta",
                units |-> "degrees", data |-> <<>>],
               [quantity |-> "coordinate", vectorComponent |-> "phi",
                units |-> "degrees", data |-> <<>>],
               [quantity |-> "electric field", vectorComponent |-> "theta",
                phasorComponent |-> "real", units |-> "V/m", data |-> <<>>],
               [quantity |-> "unknown", description |-> <<"F","o","o">>,
                data |-> <<>>]>>

\* the row of four labels has been read
C6_Witness ==
  /\ pc[1] = "reading"
  /\ fp[1] = <<L_ColTPRF>>
  /\ pos[1] = 2
  /\ Len(Layout(1)) = 4

\* C7: the row of a data line is all numbers when every token is a float
\* literal and all raw tokens when one is not, never a mixture, and a blank
\* line gives no row.
C7_RowCoercion ==
  \A p \in Readers :
    \A i \in Done(p) :
      ~IsHeaderLine(fp[p][i]) =>
        LET toks == Pieces(fp[p][i], Space)
            r == _parse_data_line(Strip(fp[p][i]))
        IN IF toks = <<>> THEN r.none
           ELSE /\ ~r.none
                /\ Len(r.row) = Len(toks)
                /\ IF \A j \in 1..Len(toks) : ParseFloat(toks[j]).ok
                   THEN \A j \in 1..Len(toks) :
                          r.row[j].num /\ r.row[j] = ParseFloat(toks[j]).val
                   ELSE \A j \in 1..Len(toks) :
                          ~r.row[j].num /\ r.row[j] = Str(toks[j])

\* a numeric row, a row with a non-numeric token and a blank line were read
C7_Witness ==
  /\ pc[1] = "reading"
  /\ \E i \in Done(1) : fp[1][i] = L_Row2s
  /\ \E i \in Done(1) : fp[1][i] = L_Row2
  /\ \E i \in Done(1) : fp[1][i] = L_Blank

\* the values the header lines among the first n lines of f assign to a
\* top-level key, in file order
RECURSIVE TopValues(_, _, _)
TopValues(f, n, key) ==
  IF n = 0 THEN <<>>
  ELSE LET h == _parse_header(Strip(f[n]), ColTemplates)
           here == IF IsHeaderLine(f[n]) /\ h.exc = ""
                   THEN SelectSeq(h.r, LAMBDA a : a.key = key)
                   ELSE <<>>
       IN TopValues(f, n - 1, key) \o [i \in 1..Len(here) |-> here[i].val]

\* C8: source is a sequence: "FEKO", then the value of every source
\* assignment of the headers, in file order, none lost or overwritten.
C8_SourceAccumulates ==
  \A p \in Readers :
    /\ pc[p] = "reading" =>
         contents[p].source =
           ListOf(<<<<"F","E","K","O">>>> \o TopValues(fp[p], pos[p] - 1, "source"))
    /\ result[p] # <<>> =>
         result[p][1].source =
           ListOf(<<<<"F","E","K","O">>>> \o TopValues(fp[p], Len(fp[p]), "source"))

\* a Document with two source values after "FEKO", a Source header's and a
\* banner's
C8_Witness ==
  /\ result[1] # <<>>
  /\ Len(result[1][1].source.items) = 3
  /\ \E i \in 1..Len(fp[1]) : fp[1][i] = L_Src
  /\ \E i \in 1..Len(fp[1]) : fp[1][i] = L_Banner

\* C9: date accumulates: with n >= 1 Date headers the Document's date holds
\* all n values in file order.
C9_DateAccumulates ==
  \A p \in Readers :
    (result[p] # <<>> /\ TopValues(fp[p], Len(fp[p]), "date") # <<>>) =>
      result[p][1].date.items = TopValues(fp[p], Len(fp[p]), "date")

\* C10: two calls that share only the table are independent: however their
\* loops interleave, each ends as it ends when its file is parsed alone.
C10_ParallelIndependent ==
  \A p \in Readers :
    Ended(p) =>
      /\ result[p] = ReadAlone(fp[p]).result
      /\ exc[p] = ReadAlone(fp[p]).exc

\* the header line that began the dataset in progress after n lines of f
LastBoundary(f, n) ==
  CHOOSE b \in BoundaryLines(f, n) : \A c \in BoundaryLines(f, n) : c <= b

\* the column-header rows of the dataset in progress after n lines of f
ColumnRows(f, n) == {i \in LastBoundary(f, n)..n : IsColumnRow(f[i])}

\* the first of them
FirstColumnRow(f, n) ==
  CHOOSE i \in ColumnRows(f, n) : \A j \in ColumnRows(f, n) : i <= j

\* a column without its value sequence: what identifies it
Identity(c) == SetKey(c, "data", <<>>)

\* C11: the layout of a dataset is that of the first column-header row seen
\* while it is built: whenever the dataset in progress has had a
\* column-header row, its columns are, in number and identity, those of the
\* first such row, also when a second one came before any data row.
C11_LayoutOnce ==
  \A p \in Readers :
    ( /\ pc[p] = "reading"
      /\ BoundaryLines(fp[p], pos[p] - 1) # {}
      /\ ColumnRows(fp[p], pos[p] - 1) # {} )
    => LET first == fp[p][FirstColumnRow(fp[p], pos[p] - 1)]
       IN /\ dataset[p] # <<>>
          /\ dataset[p][1].data # <<>>
          /\ Len(Layout(p)) = Len(Labels(first))
          /\ \A i \in 1..Len(Layout(p)) :
               Identity(Layout(p)[i]) = ColumnOf(Labels(first)[i])

\* a value sequence of numbers only or of strings only
Uniform(vs) ==
  \/ \A i \in 1..Len(vs) : vs[i].num
  \/ \A i \in 1..Len(vs) : ~vs[i].num

\* C12: within a dataset every column's values are all numbers or all
\* strings, in the dataset being built after any accepted rows and in the
\* datasets of the returned Document.
C12_UniformColumns ==
  \A p \in Readers :
    /\ (pc[p] = "reading" /\ dataset[p] # <<>> /\ dataset[p][1].data # <<>>) =>
         \A i \in 1..Len(Layout(p)) : Uniform(Layout(p)[i].data)
    /\ result[p] # <<>> =>
         \A j \in 1..Len(result[p][1].data) :
           result[p][1].data[j].data # <<>> =>
             \A i \in 1..Len(ColumnData(result[p][1].data[j])) :
               Uniform(ColumnData(result[p][1].data[j])[i])

\* C13: every dataset begun is sealed exactly once.  While a file is read
\* the datasets sealed and the one in progress are as many as the header
\* lines processed with the flag armed; the returned Document has as many
\* datasets as that, the last one the dataset in progress at the end of the
\* input, appended also when it has no data row; and a file without a header
\* line returns no dataset.
C13_SealedOnce ==
  \A p \in Readers :
    /\ pc[p] = "reading" => Begun(p) = Len(rows[p])
    /\ result[p] # <<>> =>
         /\ Len(result[p][1].data) = Len(rows[p])
         /\ dataset[p] # <<>> =>
              result[p][1].data[Len(rows[p])] =
                DeepCopy(dataset[p][1], _col_hdr_map)
         /\ (\A i \in 1..Len(fp[p]) : ~IsHeaderLine(fp[p][i])) =>
              result[p][1].data = <<>>

\* a Document of two datasets was returned, the second one, begun by the
\* last line of the file, without a data row
C13_Witness ==
  /\ pc[1] = "returned"
  /\ rows[1] = <<1, 0>>
  /\ Len(result[1][1].data) = 2
  /\ IsHeaderLine(fp[1][Len(fp[1])])

\* the columns of the dataset call p is building, as the references held
Columns(p) ==
  IF dataset[p] = <<>> THEN <<>>
  ELSE IF dataset[p][1].data = <<>> THEN <<>>
  ELSE dataset[p][1].data[1]

\* C14: parsing leaves the table as it was: every entry keeps exactly the
\* keys and values it had before read, and every column of a dataset is a
\* dict of its own, shared neither with an entry of the table nor with
\* another column.
C14_TableUnchanged ==
  /\ _col_hdr_map = ColTemplates
  /\ \A p \in Readers :
       \A i \in 1..Len(Columns(p)) : Columns(p)[i].tmpl = 0

\* C15: a sealed dataset is not changed by later lines.  In every pass of
\* the loop and at the end of the file the datasets already in the Document
\* stay as they are, keys, descriptors and values; at most one is added,
\* after them, and it is the dataset in progress as it stood; and the
\* Document returned holds exactly these datasets, in this order.
C15_SealedFrozen ==
  [][\A p \in Readers :
       pc[p] = "reading" =>
         LET before == contents[p].data
             after == contents'[p].data
         IN /\ Len(after) \in {Len(before), Len(before) + 1}
            /\ \A j \in 1..Len(before) : after[j] = before[j]
            /\ Len(after) = Len(before) + 1 =>
                 /\ dataset[p] # <<>>
                 /\ after[Len(after)] = DeepCopy(dataset[p][1], _col_hdr_map)
            /\ result'[p] # <<>> => result'[p][1].data = after
    ]_vars

\* two datasets whose columns come from the same entries of the table were
\* returned, the first one sealed before the second column-header row and
\* the second data row were read
C15_Witness ==
  /\ pc[1] = "returned"
  /\ fp[1] = Concat(<<1, 1>>, 1)
  /\ Len(result[1][1].data) = 2
  /\ ColumnData(result[1][1].data[1]) = <<<<Num(1, 0)>>, <<Num(25, -1)>>>>
  /\ ColumnData(result[1][1].data[2]) = <<<<Num(1, 0)>>, <<Num(25, -1)>>>>

\* C16: a non-blank data line never fails the parse: wherever it comes,
\* before any header line or in a dataset without a column layout, the call
\* does not end in an exception at that line.
C16_DataLineNeverFails ==
  \A p \in Readers :
    \A i \in Done(p) :
      (~IsHeaderLine(fp[p][i]) /\ ~IsBlankLine(fp[p][i])) =>
        ~(pc[p] = "raised" /\ i = pos[p] - 1)

\* a key/value header whose key is none of source, date, frequency, origin
\* and no name key
UnknownKeyLine(l) ==
  /\ IsKeyValueLine(l)
  /\ ~MatchI(<<"s","o","u","r","c","e">>, KeyOf(l))
  /\ ~MatchI(<<"d","a","t","e">>, KeyOf(l))
  /\ ~MatchI(<<"f","r","e","q","u","e","n","c","y">>, KeyOf(l))
  /\ ~MatchI(<<"o","r","i","g","i","n">>, KeyOf(l))
  /\ ~SearchI(<<"n","a","m","e">>, KeyOf(l))

\* C17: a key/value header with an unrecognized key is no error and assigns
\* nothing, whether whitespace follows its colon or not: the call does not
\* fail at it and its dict has no key.
C17_UnknownKeyIgnored ==
  \A p \in Readers :
    \A i \in Done(p) :
      UnknownKeyLine(fp[p][i]) =>
        /\ ~(pc[p] = "raised" /\ i = pos[p] - 1)
        /\ _parse_header(Strip(fp[p][i]), ColTemplates).exc = ""
        /\ _parse_header(Strip(fp[p][i]), ColTemplates).r = <<>>

\* "exported by", the phrase of a banner line
Phrase == <<"e","x","p","o","r","t","e","d"," ","b","y">>

\* a banner line: a header line whose text begins with no double quote, has
\* no colon and has the phrase in any letter case
IsBannerLine(l) ==
  /\ IsHeaderLine(l)
  /\ HeaderText(l) # <<>>
  /\ HeaderText(l)[1] # "\""
  /\ \A i \in 1..Len(HeaderText(l)) : HeaderText(l)[i] # ":"
  /\ Occurrences(Phrase, Lower(HeaderText(l))) # {}

\* the text after the phrase, whatever its letter case, and the whitespace
\* that follows it
AfterPhrase(t) ==
  LET occ == Occurrences(Phrase, Lower(t))
      last == CHOOSE i \in occ : \A j \in occ : j <= i
  IN LStripBy(Drop(t, last + Len(Phrase) - 1), Space)

\* C18: a banner line assigns to source exactly the text that follows the
\* phrase "exported by", in whatever letter case the phrase is written:
\* "** Exported by FEKO" gives FEKO.
C18_ExportedBy ==
  \A p \in Readers :
    \A i \in Done(p) :
      IsBannerLine(fp[p][i]) =>
        /\ _parse_header(Strip(fp[p][i]), ColTemplates).exc = ""
        /\ _parse_header(Strip(fp[p][i]), ColTemplates).r =
             <<Assign("source", <<>>, AfterPhrase(HeaderText(fp[p][i])))>>
        /\ (pc[p] = "reading" /\ i = pos[p] - 1) =>
             contents[p].source.items[Len(contents[p].source.items)] =
               AfterPhrase(HeaderText(fp[p][i]))

\* an Origin header whose value is three numeric tokens separated by commas
\* and/or whitespace, with or without parentheses
GoodOrigin(l) ==
  /\ IsKeyValueLine(l)
  /\ MatchI(<<"o","r","i","g","i","n">>, KeyOf(l))
  /\ Len(Components(ValueOf(l))) = 3
  /\ \A i \in 1..3 : ParseFloat(Components(ValueOf(l))[i]).ok

\* the position such a header is said to give
PositionOf(l) ==
  [units |-> "meters",
   x |-> ParseFloat(Components(ValueOf(l))[1]).val,
   y |-> ParseFloat(Components(ValueOf(l))[2]).val,
   z |-> ParseFloat(Components(ValueOf(l))[3]).val]

\* C19: an Origin header of three numeric tokens gives the dataset the
\* position {units: "meters", x, y, z} of the three tokens in order, be
\* they separated by commas, by whitespace or by both.
C19_OriginSeparators ==
  \A p \in Readers :
    ( /\ pc[p] \in {"reading", "raised"}
      /\ pos[p] > 1
      /\ GoodOrigin(fp[p][pos[p] - 1]) ) =>
      /\ pc[p] = "reading"
      /\ dataset[p] # <<>>
      /\ dataset[p][1].position = <<PositionOf(fp[p][pos[p] - 1])>>

\* the non-blank lines among the first n lines of f
NonBlank(f, n) == {i \in 1..n : ~IsBlankLine(f[i])}

\* whether, by the claim, the flag is armed after n lines of f: no line has
\* been read but blank ones (the flag starts armed), or the last non-blank
\* line is a data line
ArmedAfter(f, n) ==
  \/ NonBlank(f, n) = {}
  \/ ~IsHeaderLine(f[CHOOSE i \in NonBlank(f, n) : \A j \in NonBlank(f, n) : j <= i])

\* C20: the flag is armed by every non-blank data line, dropped rows
\* included, and by nothing else: while a file is read the flag is set
\* exactly when the last non-blank line read is a data line (or none was
\* read); and a header line read with the flag armed seals the dataset in
\* progress, its columns empty if all its rows were dropped, and begins a
\* new one.
C20_FlagArming ==
  \A p \in Readers :
    /\ pc[p] = "reading" =>
         new_ds_on_next_header[p] = ArmedAfter(fp[p], pos[p] - 1)
    /\ ( /\ pc[p] = "reading"
         /\ pos[p] > 2
         /\ IsHeaderLine(fp[p][pos[p] - 1])
         /\ ArmedAfter(fp[p], pos[p] - 2) ) =>
           /\ Len(contents[p].data) = Len(rows[p]) - 1
           /\ dataset[p] # <<>>
           /\ \A j \in 1..Len(contents[p].data) :
                (rows[p][j] = 0 /\ contents[p].data[j].data # <<>>) =>
                  \A i \in 1..Len(ColumnData(contents[p].data[j])) :
                    ColumnData(contents[p].data[j])[i] = <<>>

\* a header line was read after a column-header row and a row of another
\* token count: the first dataset is sealed with its two columns empty and
\* a second one is in progress
C20_Witness ==
  /\ pc[1] = "reading"
  /\ pos[1] = 4
  /\ fp[1][1] = L_ColTP
  /\ fp[1][2] = L_Row3
  /\ IsHeaderLine(fp[1][3])
  /\ Len(contents[1].data) = 1
  /\ ColumnData(contents[1].data[1]) = <<<<>>, <<>>>>
  /\ rows[1] = <<0, 0>>

====
